---- MODULE Spec2Model ----
(***************************************************************************)
(* Model of the e-commerce backend controllers:                            *)
(*   src/src/controllers/shoppingCart.controller.js  (cart and orders)     *)
(*   src/src/controllers/customer.controller.js      (identity)            *)
(*   src/src/controllers/product.controller.js       (catalog and reviews) *)
(* Every request runs in a request slot; a handler is split at its awaits, *)
(* each database call being one atomic step, so requests interleave        *)
(* exactly where the code suspends.                                        *)
(***************************************************************************)
EXTENDS Integers, Sequences, FiniteSets, TLC

VARIABLES
    cart,          \* rows of the shopping_cart table
    nextItemId,    \* auto-increment counter of shopping_cart.item_id
    orders,        \* rows of the orders table
    nextOrderId,   \* auto-increment counter of orders.order_id
    orderDetail,   \* rows of the order_detail table
    price,         \* product_id -> current unit price of the product
    uniqueKey,     \* does shopping_cart carry a unique index on (cart_id, product_id):
                   \* the schema is not part of the controllers, both are modelled
    customers,     \* rows of the customer table
    nextCustomerId,\* auto-increment counter of customer.customer_id
    uniqueEmail,   \* does customer carry a unique index on email: the schema is
                   \* not part of the controllers, both are modelled
    reviews,       \* rows of the review table
    nextReviewId,  \* auto-increment counter of review.review_id
    req            \* request slot -> the request it runs and its response

vars == <<cart, nextItemId, orders, nextOrderId, orderDetail, price, uniqueKey,
          customers, nextCustomerId, uniqueEmail, reviews, nextReviewId, req>>

cartVars == <<cart, nextItemId, orders, nextOrderId, orderDetail, price, uniqueKey>>
customerVars == <<customers, nextCustomerId, uniqueEmail>>
reviewVars == <<reviews, nextReviewId>>

(***************************************************************************)
(* Bounds of the model.                                                    *)
(***************************************************************************)
MaxItems == 2        \* cart rows ever inserted
MaxOrders == 2       \* order rows ever inserted
MaxCustomers == 2    \* customer rows ever inserted

Reqs == {"r1", "r2"}                     \* request slots
CartIds == {"0123456789ab", "ab"}        \* caller-supplied cart_id strings
Products == {1, 2}                       \* product_id of the catalog
Prices == {5, 10}                        \* unit prices a product can have
Quantities == {2, 3}                     \* quantity of a request body
Attrs == {"S"}                           \* attribute selections
Tokens == {0, 1}                         \* customer_id of the decoded token, 0: absent
ShippingIds == {1}
TaxIds == {1}
ItemIds == 1..(MaxItems + 1)             \* item_id of a request path
Names == {"Ann", "Bob"}                         \* name of a request body
Emails == {"a@x.io", "b@x.io", "c@x.io"}           \* email of a request body
Passwords == {"pw1", "pw2"}              \* password of a request body
CustomerIds == 1..MaxCustomers           \* customer_id of a decoded token
BodyQuantities == {-1, 0, 2}             \* quantity of a request body, any sign
OrderIds == 1..(MaxOrders + 1)           \* order_id of a request path
ProductPathIds == Products \cup {3}       \* product_id of a request path, 3: no such product
ReviewTexts == {"good", "poor"}          \* review of a request
Ratings == {1, 5}                        \* rating of a request
Categories == {1}                        \* category_id of the category table

(***************************************************************************)
(* Request slots.                                                          *)
(***************************************************************************)
Idle == [op |-> "none", pc |-> "idle", args |-> [none |-> TRUE],
         status |-> 0, body |-> {}]

\* a handler suspended at an await, its response not yet sent
Pending(op, pc, args) ==
    [op |-> op, pc |-> pc, args |-> args, status |-> 0, body |-> {}]

\* res.status(status).json(body)
Respond(op, args, status, body) ==
    [op |-> op, pc |-> "done", args |-> args, status |-> status, body |-> body]

Free(r) == req[r].pc \in {"idle", "done"}

(***************************************************************************)
(* String.prototype.substring(n)                                           *)
(***************************************************************************)
CartIdPrefix == 10

Substring(s, n) == IF n >= Len(s) THEN "" ELSE SubSeq(s, n + 1, Len(s))

(***************************************************************************)
(* ShoppingCart table                                                      *)
(***************************************************************************)
\* rows an upsert of (cart_id, product_id) collides with on a unique index
UpsertConflict(rows, cid, pid) ==
    IF uniqueKey
    THEN {x \in rows : x.cart_id = cid /\ x.product_id = pid}
    ELSE {}

\* ShoppingCart.upsert(values): INSERT ... ON DUPLICATE KEY UPDATE; the values
\* carry no item_id, so a row is replaced only through a unique index
ShoppingCartUpsert(rows, id, cid, pid, attrs, q) ==
    IF UpsertConflict(rows, cid, pid) # {}
    THEN (rows \ UpsertConflict(rows, cid, pid)) \cup
         {[x EXCEPT !.attributes = attrs, !.quantity = q] :
              x \in UpsertConflict(rows, cid, pid)}
    ELSE rows \cup {[item_id |-> id, cart_id |-> cid, product_id |-> pid,
                     attributes |-> attrs, quantity |-> q, added_on |-> id]}

\* the boolean upsert resolves to: was a row created
UpsertCreated(rows, cid, pid) == UpsertConflict(rows, cid, pid) = {}

\* ShoppingCart.findOne({where: {product_id}, order: [['added_on', 'DESC']]})
LastEntry(rows, pid) ==
    {x \in rows : /\ x.product_id = pid
                  /\ \A y \in rows : y.product_id = pid => y.added_on <= x.added_on}

\* the columns selected by attributes: [...]
CartColumns(x) ==
    [item_id |-> x.item_id, cart_id |-> x.cart_id, product_id |-> x.product_id,
     attributes |-> x.attributes, quantity |-> x.quantity]

\* ShoppingCart.findAll({where: {cart_id}})
CartRows(rows, cid) == {x \in rows : x.cart_id = cid}

(***************************************************************************)
(* addItemToCart                                                           *)
(***************************************************************************)
\* the cart_id the handler stores
StoredCartId(cid) == Substring(cid, CartIdPrefix)

AddItemToCart_upsert(r, tok, cid, pid, a, q) ==
    LET args == [customerId |-> tok, cart_id |-> cid, product_id |-> pid,
                 attributes |-> a, quantity |-> q]
        sid == StoredCartId(cid)
    IN  /\ Free(r)
        /\ IF tok # 0
           THEN /\ UpsertCreated(cart, sid, pid) => nextItemId <= MaxItems
                /\ cart' = ShoppingCartUpsert(cart, nextItemId, sid, pid, a, q)
                /\ nextItemId' = IF UpsertCreated(cart, sid, pid)
                                 THEN nextItemId + 1 ELSE nextItemId
                /\ req' = [req EXCEPT ![r] =
                              IF UpsertCreated(cart, sid, pid)
                              THEN Pending("addItemToCart", "findOne", args)
                              ELSE Respond("addItemToCart", args, 400,
                                           "Could not add item to cart.")]
           ELSE /\ req' = [req EXCEPT ![r] =
                              Respond("addItemToCart", args, 400,
                                      "Could not add item to cart.")]
                /\ UNCHANGED <<cart, nextItemId>>
        /\ UNCHANGED <<orders, nextOrderId, orderDetail, price, uniqueKey,
                       customerVars, reviewVars>>

AddItemToCart_findOne(r) ==
    /\ req[r].op = "addItemToCart"
    /\ req[r].pc = "findOne"
    /\ req' = [req EXCEPT ![r] =
                  Respond("addItemToCart", req[r].args, 201,
                          {CartColumns(x) : x \in LastEntry(cart, req[r].args.product_id)})]
    /\ UNCHANGED <<cartVars, customerVars, reviewVars>>

(***************************************************************************)
(* getCart                                                                 *)
(***************************************************************************)
\* cart.map(item => ...): the line joined with its Product
CartItem(x, cid) ==
    [item_id |-> x.item_id, cart_id |-> cid, product_id |-> x.product_id,
     attributes |-> x.attributes, price |-> price[x.product_id],
     quantity |-> x.quantity, subtotal |-> x.quantity * price[x.product_id]]

GetCartItems(rows, cid) == {CartItem(x, cid) : x \in CartRows(rows, cid)}

\* the cart-level total of the response: res.json(items) sends the lines alone
GetCartTotal(rows, cid) == <<>>

GetCart(r, tok, cid) ==
    LET args == [customerId |-> tok, cart_id |-> cid]
    IN  /\ Free(r)
        /\ req' = [req EXCEPT ![r] =
                      IF tok # 0
                      THEN Respond("getCart", args, 200, GetCartItems(cart, cid))
                      ELSE Respond("getCart", args, 404,
                                   "Could not find a cart with that id.")]
        /\ UNCHANGED <<cartVars, customerVars, reviewVars>>

(***************************************************************************)
(* updateCartItem                                                          *)
(***************************************************************************)
\* ShoppingCart.update({quantity}, {where: {item_id}})
ShoppingCartUpdate(rows, id, q) ==
    {IF x.item_id = id THEN [x EXCEPT !.quantity = q] ELSE x : x \in rows}

\* ShoppingCart.findByPk(item_id)
FindByPk(rows, id) == {x \in rows : x.item_id = id}

UpdateCartItem_update(r, tok, id, q) ==
    LET args == [customerId |-> tok, item_id |-> id, quantity |-> q]
    IN  /\ Free(r)
        /\ IF tok # 0
           THEN /\ cart' = ShoppingCartUpdate(cart, id, q)
                /\ req' = [req EXCEPT ![r] = Pending("updateCartItem", "findByPk", args)]
           ELSE /\ req' = [req EXCEPT ![r] =
                              Respond("updateCartItem", args, 200, FindByPk(cart, id))]
                /\ UNCHANGED cart
        /\ UNCHANGED <<nextItemId, orders, nextOrderId, orderDetail, price, uniqueKey,
                       customerVars, reviewVars>>

UpdateCartItem_findByPk(r) ==
    /\ req[r].op = "updateCartItem"
    /\ req[r].pc = "findByPk"
    /\ req' = [req EXCEPT ![r] =
                  Respond("updateCartItem", req[r].args, 200,
                          FindByPk(cart, req[r].args.item_id))]
    /\ UNCHANGED <<cartVars, customerVars, reviewVars>>

(***************************************************************************)
(* emptyCart, removeItemFromCart                                           *)
(***************************************************************************)
\* the status emptyCart answers with, from the number of rows destroyed
EmptyCartStatus(tok, destroyed) == IF tok # 0 /\ destroyed # 0 THEN 200 ELSE 400

EmptyCart(r, tok, cid) ==
    LET args == [customerId |-> tok, cart_id |-> cid]
        gone == IF tok # 0 THEN CartRows(cart, cid) ELSE {}
    IN  /\ Free(r)
        /\ cart' = cart \ gone
        /\ req' = [req EXCEPT ![r] =
                      IF EmptyCartStatus(tok, Cardinality(gone)) = 200
                      THEN Respond("emptyCart", args, 200, {})
                      ELSE Respond("emptyCart", args, 400, "Unable to empty cart")]
        /\ UNCHANGED <<nextItemId, orders, nextOrderId, orderDetail, price, uniqueKey,
                       customerVars, reviewVars>>

\* the status removeItemFromCart answers with, from the number of rows destroyed
RemoveItemStatus(tok, destroyed) == IF tok # 0 /\ destroyed # 0 THEN 200 ELSE 400

RemoveItemFromCart(r, tok, id) ==
    LET args == [customerId |-> tok, item_id |-> id]
        gone == IF tok # 0 THEN FindByPk(cart, id) ELSE {}
    IN  /\ Free(r)
        /\ cart' = cart \ gone
        /\ req' = [req EXCEPT ![r] =
                      IF RemoveItemStatus(tok, Cardinality(gone)) = 200
                      THEN Respond("removeItemFromCart", args, 200,
                                   "successfully removed the item")
                      ELSE Respond("removeItemFromCart", args, 400,
                                   "Unable to remove the item")]
        /\ UNCHANGED <<nextItemId, orders, nextOrderId, orderDetail, price, uniqueKey,
                       customerVars, reviewVars>>

(***************************************************************************)
(* createOrder                                                             *)
(***************************************************************************)
\* a column the insert gives no value for
Unset == <<>>

\* Order.upsert({customer_id, cart_id, shipping_id, tax_id}): the values carry no
\* order_id, so a row is inserted
OrderUpsert(rows, id, tok, cid, sh, tx) ==
    rows \cup {[order_id |-> id, customer_id |-> tok, cart_id |-> cid,
                shipping_id |-> sh, tax_id |-> tx, total_amount |-> Unset]}

CreateOrder_upsert(r, tok, cid, sh, tx) ==
    LET args == [customerId |-> tok, cart_id |-> cid, shipping_id |-> sh, tax_id |-> tx]
    IN  /\ Free(r)
        /\ nextOrderId <= MaxOrders
        /\ orders' = OrderUpsert(orders, nextOrderId, tok, cid, sh, tx)
        /\ nextOrderId' = nextOrderId + 1
        /\ req' = [req EXCEPT ![r] = Pending("createOrder", "count", args)]
        /\ UNCHANGED <<cart, nextItemId, orderDetail, price, uniqueKey, customerVars, reviewVars>>

\* Order.count()
OrderCount(rows) == Cardinality(rows)

CreateOrder_count(r) ==
    /\ req[r].op = "createOrder"
    /\ req[r].pc = "count"
    /\ req' = [req EXCEPT ![r] =
                  Respond("createOrder", req[r].args, 201,
                          [order_id |-> OrderCount(orders)])]
    /\ UNCHANGED <<cartVars, customerVars, reviewVars>>

(***************************************************************************)
(* getOrderSummary                                                         *)
(***************************************************************************)
\* OrderDetail.findByPk(order_id): the order_detail row whose primary key, its
\* item_id, is the number given
OrderDetailFindByPk(details, id) == {d \in details : d.item_id = id}

GetOrderSummary(r, id) ==
    LET args == [order_id |-> id]
        order == OrderDetailFindByPk(orderDetail, id)
    IN  /\ Free(r)
        /\ req' = [req EXCEPT ![r] =
                      IF order # {}
                      THEN Respond("getOrderSummary", args, 200,
                                   [order_id |-> id, order_items |-> order])
                      ELSE Respond("getOrderSummary", args, 404,
                                   "The order does not exist")]
        /\ UNCHANGED <<cartVars, customerVars, reviewVars>>

(***************************************************************************)
(* Customer table, bcrypt, jsonwebtoken                                    *)
(***************************************************************************)
\* bcrypt.hashSync(password, 8): the digest of a password, never equal to a password
HashSync(password) == "$2b$08$" \o password

\* bcrypt.compareSync(password, stored): is stored a digest of password
CompareSync(password, stored) == stored = HashSync(password)

\* Customer.findOne({where: {email}})
FindByEmail(rows, email) == {c \in rows : c.email = email}

\* findOrCreate that creates without finding
CustomerAlwaysCreate(rows, id, name, email, password) ==
    rows \cup {[customer_id |-> id, name |-> name, email |-> email,
                password |-> password]}

\* Customer.findOrCreate({where: {email}, defaults: {name, password}}): the table after
CustomerFindOrCreate(rows, id, name, email, password) ==
    IF FindByEmail(rows, email) # {}
    THEN rows
    ELSE rows \cup {[customer_id |-> id, name |-> name, email |-> email,
                     password |-> password]}

\* `Bearer ${jwt.sign({customer_id}, SECRET_KEY, {expiresIn: '24h'})}`
AccessToken(id) == [customer_id |-> id, expiresIn |-> "24h"]

(***************************************************************************)
(* create                                                                  *)
(***************************************************************************)
Create(r, name, email, password) ==
    LET args == [name |-> name, email |-> email, password |-> password]
        passwordHash == HashSync(password)
        found == FindByEmail(customers, email)
    IN  /\ Free(r)
        /\ found = {} => nextCustomerId <= MaxCustomers
        /\ customers' = CustomerFindOrCreate(customers, nextCustomerId, name, email, password)
        /\ nextCustomerId' = IF found = {} THEN nextCustomerId + 1 ELSE nextCustomerId
        /\ req' = [req EXCEPT ![r] =
                      IF found # {}
                      THEN Respond("create", args, 409, "User with email already exist")
                      ELSE Respond("create", args, 201,
                                   [customer_id |-> nextCustomerId, name |-> name,
                                    email |-> email,
                                    accessToken |-> AccessToken(nextCustomerId)])]
        /\ UNCHANGED <<cartVars, uniqueEmail, reviewVars>>

(***************************************************************************)
(* login                                                                   *)
(***************************************************************************)
\* the status login answers with
LoginStatus(rows, email, password) ==
    IF FindByEmail(rows, email) = {} THEN 404
    ELSE IF \E c \in FindByEmail(rows, email) : CompareSync(password, c.password)
         THEN 200 ELSE 401

LoginBody(rows, email, password) ==
    IF LoginStatus(rows, email, password) = 404 THEN "User does not exist"
    ELSE IF LoginStatus(rows, email, password) = 401 THEN "Incorrect password"
    ELSE {[customer_id |-> c.customer_id, name |-> c.name, email |-> c.email,
           accessToken |-> AccessToken(c.customer_id)] : c \in FindByEmail(rows, email)}

Login(r, email, password) ==
    LET args == [email |-> email, password |-> password]
    IN  /\ Free(r)
        /\ req' = [req EXCEPT ![r] =
                      Respond("login", args, LoginStatus(customers, email, password),
                              LoginBody(customers, email, password))]
        /\ UNCHANGED <<cartVars, customerVars, reviewVars>>

(***************************************************************************)
(* updateCustomerProfile                                                   *)
(***************************************************************************)
\* findOne that leaves out the [Op.not] condition on customer_id
ExistingEmailAnyCustomer(rows, email, customerId) ==
    {c \in rows : c.email = email}

\* Customer.findOne({where: {email, customer_id: {[Op.not]: customerId}}})
ExistingEmail(rows, email, customerId) ==
    {c \in rows : c.email = email /\ c.customer_id # customerId}

\* Customer.update({email, name, ...}, {where: {customer_id: customerId}})
CustomerUpdate(rows, customerId, email, name) ==
    {IF c.customer_id = customerId
     THEN [c EXCEPT !.email = email, !.name = name] ELSE c : c \in rows}

\* Customer.findOne({where: {customer_id}, attributes: {exclude: ['password']}})
Profile(rows, customerId) ==
    {[customer_id |-> c.customer_id, name |-> c.name, email |-> c.email] :
         c \in {x \in rows : x.customer_id = customerId}}

UpdateCustomerProfile_findOne(r, tok, email, name) ==
    LET args == [customerId |-> tok, email |-> email, name |-> name]
    IN  /\ Free(r)
        /\ req' = [req EXCEPT ![r] =
                      IF ExistingEmail(customers, email, tok) = {}
                      THEN Pending("updateCustomerProfile", "update", args)
                      ELSE Respond("updateCustomerProfile", args, 403,
                                   "Email already taken")]
        /\ UNCHANGED <<cartVars, customerVars, reviewVars>>

\* rows an update of a customer's email collides with on a unique index
UpdateConflict(rows, customerId, email) ==
    IF uniqueEmail /\ (\E c \in rows : c.customer_id = customerId)
    THEN {c \in rows : c.email = email /\ c.customer_id # customerId}
    ELSE {}

\* the update is written, or the database rejects it and the catch forwards the
\* error
UpdateCustomerProfile_update(r) ==
    /\ req[r].op = "updateCustomerProfile"
    /\ req[r].pc = "update"
    /\ IF UpdateConflict(customers, req[r].args.customerId, req[r].args.email) = {}
       THEN /\ customers' = CustomerUpdate(customers, req[r].args.customerId,
                                           req[r].args.email, req[r].args.name)
            /\ req' = [req EXCEPT ![r] =
                          Pending("updateCustomerProfile", "findOne", req[r].args)]
       ELSE /\ customers' = customers
            /\ req' = [req EXCEPT ![r] =
                          Respond("updateCustomerProfile", req[r].args, 500, "error")]
    /\ UNCHANGED <<cartVars, nextCustomerId, uniqueEmail, reviewVars>>

UpdateCustomerProfile_respond(r) ==
    /\ req[r].op = "updateCustomerProfile"
    /\ req[r].pc = "findOne"
    /\ req' = [req EXCEPT ![r] =
                  Respond("updateCustomerProfile", req[r].args, 200,
                          Profile(customers, req[r].args.customerId))]
    /\ UNCHANGED <<cartVars, customerVars, reviewVars>>

(***************************************************************************)
(* Review table, postProductReview                                         *)
(***************************************************************************)
\* the customer_id the handler writes in its queries: the literal 1, the token of
\* the request is never read
ReviewCustomerId == 1

\* Product.findOne({where: {product_id}})
ProductFindOne(pid) == {p \in DOMAIN price : p = pid}

\* Review.findOne({where: {product_id, customer_id: 1}, attributes: ['review_id']})
CustomerReview(rows, pid) ==
    {x.review_id : x \in {y \in rows : /\ y.product_id = pid
                                       /\ y.customer_id = ReviewCustomerId}}

\* Review.upsert({customer_id: 1, review, rating, created_on, product_id}): the
\* values carry no review_id, a row is inserted
ReviewUpsert(rows, id, pid, review, rating) ==
    rows \cup {[review_id |-> id, customer_id |-> ReviewCustomerId, review |-> review,
                rating |-> rating, created_on |-> id, product_id |-> pid]}

PostProductReview_findProduct(r, tok, pid, review, rating) ==
    LET args == [customerId |-> tok, product_id |-> pid, review |-> review,
                 rating |-> rating]
    IN  /\ Free(r)
        /\ req' = [req EXCEPT ![r] =
                      IF ProductFindOne(pid) # {}
                      THEN Pending("postProductReview", "findReview", args)
                      ELSE Respond("postProductReview", args, 404,
                                   "Product does not exist")]
        /\ UNCHANGED <<cartVars, customerVars, reviewVars>>

PostProductReview_findReview(r) ==
    /\ req[r].op = "postProductReview"
    /\ req[r].pc = "findReview"
    /\ req' = [req EXCEPT ![r] =
                  IF CustomerReview(reviews, req[r].args.product_id) = {}
                  THEN Pending("postProductReview", "upsert", req[r].args)
                  ELSE Respond("postProductReview", req[r].args, 409,
                               "You have already reviewed this product.")]
    /\ UNCHANGED <<cartVars, customerVars, reviewVars>>

PostProductReview_upsert(r) ==
    /\ req[r].op = "postProductReview"
    /\ req[r].pc = "upsert"
    /\ reviews' = ReviewUpsert(reviews, nextReviewId, req[r].args.product_id,
                               req[r].args.review, req[r].args.rating)
    /\ nextReviewId' = nextReviewId + 1
    /\ req' = [req EXCEPT ![r] = Respond("postProductReview", req[r].args, 201, TRUE)]
    /\ UNCHANGED <<cartVars, customerVars>>

(***************************************************************************)
(* Query parameters: a value of req.query is undefined when the request    *)
(* omits it and the decimal string of a number otherwise; arithmetic on    *)
(* them yields a number or NaN                                             *)
(***************************************************************************)
Undefined == [kind |-> "undefined", value |-> 0]
NaN == [kind |-> "NaN", value |-> 0]
Num(n) == [kind |-> "number", value |-> n]

Pages == {Undefined, Num(-5), Num(0), Num(1), Num(2)}    \* page of a query
Limits == {Undefined, Num(1), Num(20)}                   \* limit of a query

\* Number(x)
Number(x) == IF x.kind = "undefined" THEN NaN ELSE x

\* !x: undefined is falsy, a non-empty string is truthy
Not(x) == x.kind = "undefined"

\* x < n
LessThan(x, n) == x.kind = "number" /\ x.value < n

\* x * y
Times(x, y) ==
    IF x.kind = "number" /\ y.kind = "number" THEN Num(x.value * y.value) ELSE NaN

\* x - y
Minus(x, y) ==
    IF x.kind = "number" /\ y.kind = "number" THEN Num(x.value - y.value) ELSE NaN

(***************************************************************************)
(* Paginated catalog listings                                              *)
(***************************************************************************)
DefaultPage == 1
DefaultLimit == 20

\* if (!page) page = 1; else if (page < 1) page = 1;
ClampPage(page) ==
    IF Not(page) THEN Num(DefaultPage)
    ELSE IF LessThan(page, 1) THEN Num(DefaultPage) ELSE page

\* if (!limit) limit = 20;
ClampLimit(limit) == IF Not(limit) THEN Num(DefaultLimit) ELSE limit

\* Number(page) * Number(limit) - Number(limit)
Offset(page, limit) == Minus(Times(Number(page), Number(limit)), Number(limit))

\* getAllProducts, searchProduct: page and limit are clamped, then the offset is
\* computed
ClampedQuery(page, limit) ==
    [offset |-> Offset(ClampPage(page), ClampLimit(limit)),
     limit |-> Number(ClampLimit(limit))]

\* getProductsByCategory, getProductsByDepartment: the offset is computed from
\* the query's page and limit, then page and limit are clamped
UnclampedQuery(page, limit) ==
    [offset |-> Offset(page, limit), limit |-> Number(ClampLimit(limit))]

\* does the database accept LIMIT offset, limit
ValidQuery(q) ==
    /\ q.offset.kind = "number" /\ q.offset.value >= 0
    /\ q.limit.kind = "number" /\ q.limit.value >= 0

\* findAll({offset, limit}) over rows numbered from 1
Page(rows, q) ==
    {x \in rows : q.offset.value < x /\ x <= q.offset.value + q.limit.value}

\* Math.ceil(count / limit)
TotalPages(count, limit) == IF limit = 0 THEN 0 ELSE (count + limit - 1) \div limit

\* a listing suspended at the query it sends to the database
Listing(op, page, limit, query) ==
    Pending(op, "findAll", [page |-> page, limit |-> limit, query |-> query])

\* the response of a listing: the rows, or the error the catch forwards
ListingResponse(op, args, body) ==
    IF ValidQuery(args.query)
    THEN Respond(op, args, 200, body)
    ELSE Respond(op, args, 500, "error")

GetAllProducts(r, page, limit) ==
    /\ Free(r)
    /\ req' = [req EXCEPT ![r] =
                  Listing("getAllProducts", page, limit, ClampedQuery(page, limit))]
    /\ UNCHANGED <<cartVars, customerVars, reviewVars>>

GetAllProducts_respond(r) ==
    LET q == req[r].args.query
        count == Cardinality(DOMAIN price)
    IN  /\ req[r].op = "getAllProducts"
        /\ req[r].pc = "findAll"
        /\ req' = [req EXCEPT ![r] =
                      ListingResponse("getAllProducts", req[r].args,
                          [paginationMeta |->
                               [currentPage |-> q.offset.value,
                                currentPageSize |-> q.limit.value,
                                totalPages |-> TotalPages(count, q.limit.value),
                                totalRecords |-> count],
                           rows |-> Page(DOMAIN price, q)])]
        /\ UNCHANGED <<cartVars, customerVars, reviewVars>>

SearchProduct(r, page, limit) ==
    /\ Free(r)
    /\ req' = [req EXCEPT ![r] =
                  Listing("searchProduct", page, limit, ClampedQuery(page, limit))]
    /\ UNCHANGED <<cartVars, customerVars, reviewVars>>

SearchProduct_respond(r) ==
    /\ req[r].op = "searchProduct"
    /\ req[r].pc = "findAll"
    /\ req' = [req EXCEPT ![r] =
                  ListingResponse("searchProduct", req[r].args,
                                  [rows |-> Page(DOMAIN price, req[r].args.query)])]
    /\ UNCHANGED <<cartVars, customerVars, reviewVars>>

GetProductsByCategory(r, page, limit) ==
    /\ Free(r)
    /\ req' = [req EXCEPT ![r] =
                  Listing("getProductsByCategory", page, limit,
                          UnclampedQuery(page, limit))]
    /\ UNCHANGED <<cartVars, customerVars, reviewVars>>

GetProductsByCategory_respond(r) ==
    /\ req[r].op = "getProductsByCategory"
    /\ req[r].pc = "findAll"
    /\ req' = [req EXCEPT ![r] =
                  ListingResponse("getProductsByCategory", req[r].args,
                                  [rows |-> Page(DOMAIN price, req[r].args.query)])]
    /\ UNCHANGED <<cartVars, customerVars, reviewVars>>

GetProductsByDepartment(r, page, limit) ==
    /\ Free(r)
    /\ req' = [req EXCEPT ![r] =
                  Listing("getProductsByDepartment", page, limit,
                          UnclampedQuery(page, limit))]
    /\ UNCHANGED <<cartVars, customerVars, reviewVars>>

\* the query pages the categories of the department; the products of every
\* category of the page are listed
GetProductsByDepartment_respond(r) ==
    /\ req[r].op = "getProductsByDepartment"
    /\ req[r].pc = "findAll"
    /\ req' = [req EXCEPT ![r] =
                  ListingResponse("getProductsByDepartment", req[r].args,
                      [rows |-> IF Page(Categories, req[r].args.query) # {}
                                THEN DOMAIN price ELSE {}])]
    /\ UNCHANGED <<cartVars, customerVars, reviewVars>>

(***************************************************************************)
(* Catalog administration: a product's price changes                       *)
(***************************************************************************)
ChangePrice(p, v) ==
    /\ price[p] # v
    /\ price' = [price EXCEPT ![p] = v]
    /\ UNCHANGED <<cart, nextItemId, orders, nextOrderId, orderDetail, uniqueKey,
                   customerVars, reviewVars, req>>

(***************************************************************************)
(* Specification of the cart and order pipeline, one request at a time     *)
(***************************************************************************)
Init ==
    /\ cart = {}
    /\ nextItemId = 1
    /\ orders = {}
    /\ nextOrderId = 1
    /\ orderDetail = {}
    /\ price = [p \in Products |-> IF p = 1 THEN 10 ELSE 5]
    /\ uniqueKey \in BOOLEAN
    /\ customers = {}
    /\ nextCustomerId = 1
    /\ uniqueEmail \in BOOLEAN
    /\ reviews = {}
    /\ nextReviewId = 1
    /\ req = [r \in Reqs |-> Idle]

\* requests on the cart alone
CartRequest(r) ==
    \/ \E tok \in Tokens, cid \in CartIds, pid \in Products, a \in Attrs, q \in Quantities :
           AddItemToCart_upsert(r, tok, cid, pid, a, q)
    \/ AddItemToCart_findOne(r)
    \/ \E tok \in Tokens, cid \in CartIds : GetCart(r, tok, cid)
    \/ \E tok \in Tokens, id \in ItemIds, q \in Quantities : UpdateCartItem_update(r, tok, id, q)
    \/ UpdateCartItem_findByPk(r)
    \/ \E tok \in Tokens, cid \in CartIds : EmptyCart(r, tok, cid)
    \/ \E tok \in Tokens, id \in ItemIds : RemoveItemFromCart(r, tok, id)

NextCart == CartRequest("r1")

SpecCart == Init /\ [][NextCart]_vars

(***************************************************************************)
(* Specification of checkout: a cart is filled, read and ordered while     *)
(* prices change                                                           *)
(***************************************************************************)
OrderRequest(r) ==
    \/ \E tok \in Tokens, cid \in CartIds, pid \in Products, a \in Attrs, q \in Quantities :
           AddItemToCart_upsert(r, tok, cid, pid, a, q)
    \/ AddItemToCart_findOne(r)
    \/ \E tok \in Tokens, cid \in CartIds : GetCart(r, tok, cid)
    \/ \E tok \in Tokens, cid \in CartIds, sh \in ShippingIds, tx \in TaxIds :
           CreateOrder_upsert(r, tok, cid, sh, tx)
    \/ CreateOrder_count(r)

NextOrder ==
    \/ OrderRequest("r1")
    \/ \E p \in Products, v \in Prices : ChangePrice(p, v)

SpecOrder == Init /\ [][NextOrder]_vars

(***************************************************************************)
(* Specification of the identity service                                   *)
(***************************************************************************)
CustomerRequest(r) ==
    \/ \E n \in Names, e \in Emails, pw \in Passwords : Create(r, n, e, pw)
    \/ \E e \in Emails, pw \in Passwords : Login(r, e, pw)

NextCustomer == CustomerRequest("r1")

SpecCustomer == Init /\ [][NextCustomer]_vars

(***************************************************************************)
(* Specification of profile updates, one request at a time                 *)
(***************************************************************************)
ProfileRequest(r) ==
    \/ \E n \in Names, e \in Emails, pw \in Passwords : Create(r, n, e, pw)
    \/ \E tok \in CustomerIds, e \in Emails, n \in Names :
           UpdateCustomerProfile_findOne(r, tok, e, n)
    \/ UpdateCustomerProfile_update(r)
    \/ UpdateCustomerProfile_respond(r)

NextProfile == ProfileRequest("r1")

SpecProfile == Init /\ [][NextProfile]_vars

(***************************************************************************)
(* Specification of cart requests whose quantity may be zero or negative   *)
(***************************************************************************)
ValidationRequest(r) ==
    \/ \E tok \in Tokens, cid \in CartIds, pid \in Products, a \in Attrs,
          q \in BodyQuantities : AddItemToCart_upsert(r, tok, cid, pid, a, q)
    \/ AddItemToCart_findOne(r)
    \/ \E tok \in Tokens, id \in ItemIds, q \in BodyQuantities :
           UpdateCartItem_update(r, tok, id, q)
    \/ UpdateCartItem_findByPk(r)

NextValidation == ValidationRequest("r1")

SpecValidation == Init /\ [][NextValidation]_vars

(***************************************************************************)
(* Specification of orders and their summaries, one request at a time      *)
(***************************************************************************)
SummaryRequest(r) ==
    \/ \E tok \in CustomerIds, cid \in CartIds, sh \in ShippingIds, tx \in TaxIds :
           CreateOrder_upsert(r, tok, cid, sh, tx)
    \/ CreateOrder_count(r)
    \/ \E id \in OrderIds : GetOrderSummary(r, id)

NextSummary == SummaryRequest("r1")

SpecSummary == Init /\ [][NextSummary]_vars

(***************************************************************************)
(* Specification of checkout by two concurrent requests: the carts are     *)
(* filled first, then each request slot submits createOrder                *)
(***************************************************************************)
CheckoutRequest(r) ==
    \/ /\ orders = {}
       /\ \E cid \in CartIds, pid \in Products, a \in Attrs, q \in Quantities :
              AddItemToCart_upsert(r, 1, cid, pid, a, q)
    \/ AddItemToCart_findOne(r)
    \/ \E tok \in CustomerIds, cid \in CartIds, sh \in ShippingIds, tx \in TaxIds :
           CreateOrder_upsert(r, tok, cid, sh, tx)
    \/ CreateOrder_count(r)

NextCheckout == \E r \in Reqs : CheckoutRequest(r)

SpecCheckout == Init /\ [][NextCheckout]_vars

(***************************************************************************)
(* Specification of product reviews, one request at a time                 *)
(***************************************************************************)
ReviewRequest(r) ==
    \/ \E tok \in CustomerIds, pid \in ProductPathIds, t \in ReviewTexts, g \in Ratings :
           PostProductReview_findProduct(r, tok, pid, t, g)
    \/ PostProductReview_findReview(r)
    \/ PostProductReview_upsert(r)

NextReview == ReviewRequest("r1")

SpecReview == Init /\ [][NextReview]_vars

(***************************************************************************)
(* Specification of the paginated catalog listings, one request at a time  *)
(***************************************************************************)
ListingRequest(r) ==
    \/ \E page \in Pages, limit \in Limits : GetAllProducts(r, page, limit)
    \/ GetAllProducts_respond(r)
    \/ \E page \in Pages, limit \in Limits : SearchProduct(r, page, limit)
    \/ SearchProduct_respond(r)
    \/ \E page \in Pages, limit \in Limits : GetProductsByCategory(r, page, limit)
    \/ GetProductsByCategory_respond(r)
    \/ \E page \in Pages, limit \in Limits : GetProductsByDepartment(r, page, limit)
    \/ GetProductsByDepartment_respond(r)

NextListing == ListingRequest("r1")

SpecListing == Init /\ [][NextListing]_vars

(***************************************************************************)
(* Specification of register and updateCustomerProfile requests running    *)
(* concurrently in two request slots                                       *)
(***************************************************************************)
ConcurrentProfile(r) ==
    \/ \E e \in Emails : Create(r, "Ann", e, "pw1")
    \/ \E tok \in CustomerIds, e \in Emails :
           UpdateCustomerProfile_findOne(r, tok, e, "Ann")
    \/ UpdateCustomerProfile_update(r)
    \/ UpdateCustomerProfile_respond(r)

NextConcurrentProfile == \E r \in Reqs : ConcurrentProfile(r)

SpecConcurrentProfile == Init /\ [][NextConcurrentProfile]_vars

(***************************************************************************)
(* Specification of two addItemToCart requests running concurrently        *)
(***************************************************************************)
ConcurrentAdd(r) ==
    \/ /\ req[r].pc = "idle"
       /\ \E tok \in Tokens, cid \in CartIds, pid \in Products, a \in Attrs,
             q \in Quantities : AddItemToCart_upsert(r, tok, cid, pid, a, q)
    \/ AddItemToCart_findOne(r)

NextConcurrentAdd == \E r \in Reqs : ConcurrentAdd(r)

SpecConcurrentAdd == Init /\ [][NextConcurrentAdd]_vars

(***************************************************************************)
(* Properties                                                              *)
(***************************************************************************)
\* the step in which slot r starts handler op and runs it up to its first await
Starts(r, op) ==
    /\ Free(r)
    /\ req'[r] # req[r]
    /\ req'[r].op = op

\* the step in which slot r sends the response of handler op
Responds(r, op) ==
    /\ req'[r] # req[r]
    /\ req'[r].pc = "done"
    /\ req'[r].op = op

\* the rows of one (cart_id, product_id)
Lines(rows, cid, pid) == {x \in rows : x.cart_id = cid /\ x.product_id = pid}

\* C1: after addItemToCart the table holds at most one row per (cart_id,
\* product_id), and adding a product a cart already holds, with the same attribute
\* selection, leaves exactly one line whose quantity is the sum of the two.
C1_MergeInvariant ==
    [][\A r \in Reqs :
          (Starts(r, "addItemToCart") /\ req'[r].args.customerId # 0) =>
              LET sid == StoredCartId(req'[r].args.cart_id)
                  pid == req'[r].args.product_id
              IN  /\ \A x, y \in cart' :
                         (x.cart_id = y.cart_id /\ x.product_id = y.product_id) => x = y
                  /\ \A x \in Lines(cart, sid, pid) :
                         x.attributes = req'[r].args.attributes =>
                             \E y \in cart' :
                                 /\ Lines(cart', sid, pid) = {y}
                                 /\ y.quantity = x.quantity + req'[r].args.quantity
      ]_vars

\* C2: an order row appears only together with one order-detail row for each
\* line item of the cart it is created from.
C2_OrderAtomicity ==
    [][\A o \in orders' \ orders :
          \A x \in CartRows(cart, o.cart_id) :
              \E d \in orderDetail' :
                  d.order_id = o.order_id /\ d.product_id = x.product_id
      ]_vars

\* C3: once createOrder has created the order of a cart, getCart of that cart_id
\* returns no line items.
C3_CartCleared ==
    [][\A r \in Reqs :
          (Starts(r, "createOrder") /\ orders' # orders) =>
              GetCartItems(cart', req'[r].args.cart_id) = {}
      ]_vars

\* the Tax and Shipping tables: the amount a tax_id and a shipping_id resolve to
TaxAmount == [t \in TaxIds |-> 2]
ShippingCost == [s \in ShippingIds |-> 3]

RECURSIVE SumSubtotals(_)
\* the sum over cart lines of quantity * unit price
SumSubtotals(rows) ==
    IF rows = {} THEN 0
    ELSE LET x == CHOOSE y \in rows : TRUE
         IN  x.quantity * price[x.product_id] + SumSubtotals(rows \ {x})

\* C4: the order createOrder stores has total_amount = sum of the cart's line
\* subtotals + the tax of tax_id + the shipping cost of shipping_id.
C4_TotalAmount ==
    [][\A o \in orders' \ orders :
          o.total_amount = <<SumSubtotals(CartRows(cart, o.cart_id))
                             + TaxAmount[o.tax_id] + ShippingCost[o.shipping_id]>>
      ]_vars

\* C5: createOrder snapshots product, quantity and unit price of every cart line
\* into the order's detail rows, and a change of price leaves orders and their
\* detail rows as they were.
C5_PriceImmutability ==
    [][/\ \A o \in orders' \ orders :
             \A x \in CartRows(cart, o.cart_id) :
                 \E d \in orderDetail' :
                     /\ d.order_id = o.order_id
                     /\ d.product_id = x.product_id
                     /\ d.quantity = x.quantity
                     /\ d.unit_cost = price[x.product_id]
       /\ price' # price => (orders' = orders /\ orderDetail' = orderDetail)
      ]_vars

\* C6: createOrder on a cart_id without cart items answers 400 and leaves the
\* orders as they were.
C6_EmptyCartRejected ==
    [][\A r \in Reqs :
          (Starts(r, "createOrder") /\ CartRows(cart, req'[r].args.cart_id) = {}) =>
              /\ orders' = orders
              /\ req'[r].pc = "done"
              /\ req'[r].status = 400
      ]_vars

\* C7: removeItemFromCart of an item_id no row has, and emptyCart of a cart_id
\* no row has, answer with success and leave the cart table as it was.
C7_IdempotentDeletion ==
    [][\A r \in Reqs :
          /\ (/\ Responds(r, "removeItemFromCart")
              /\ req'[r].args.customerId # 0
              /\ FindByPk(cart, req'[r].args.item_id) = {}) =>
                 (req'[r].status = 200 /\ cart' = cart)
          /\ (/\ Responds(r, "emptyCart")
              /\ req'[r].args.customerId # 0
              /\ CartRows(cart, req'[r].args.cart_id) = {}) =>
                 (req'[r].status = 200 /\ cart' = cart)
      ]_vars

\* C8: when two concurrent addItemToCart requests for the same (cart_id,
\* product_id) are both done, there is a single row of that pair and its
\* quantity is the sum of the two requests' quantities.
C8_ConcurrentAdd ==
    \A r1, r2 \in Reqs :
        (/\ r1 # r2
         /\ req[r1].op = "addItemToCart" /\ req[r1].pc = "done"
         /\ req[r2].op = "addItemToCart" /\ req[r2].pc = "done"
         /\ req[r1].args.customerId # 0 /\ req[r2].args.customerId # 0
         /\ req[r1].args.cart_id = req[r2].args.cart_id
         /\ req[r1].args.product_id = req[r2].args.product_id
         /\ req[r1].args.attributes = req[r2].args.attributes) =>
            \E x \in cart :
                /\ Lines(cart, StoredCartId(req[r1].args.cart_id),
                         req[r1].args.product_id) = {x}
                /\ x.quantity = req[r1].args.quantity + req[r2].args.quantity

\* C9: register with an email a customer already has answers 409 and leaves the
\* customer table as it was; register with an unused email answers 201 and adds
\* exactly one customer row, which carries that email.
C9_RegisterConflict ==
    [][\A r \in Reqs :
          Responds(r, "create") =>
              IF \E c \in customers : c.email = req'[r].args.email
              THEN req'[r].status = 409 /\ customers' = customers
              ELSE /\ req'[r].status = 201
                   /\ \E c \in customers' :
                          /\ c \notin customers
                          /\ c.email = req'[r].args.email
                          /\ customers' = customers \cup {c}
      ]_vars

\* C9 witness: a register was answered 409 and one was answered 201 before it
C9_Witness ==
    \E r \in Reqs :
        /\ req[r].op = "create"
        /\ req[r].status = 409
        /\ \E c \in customers : c.email = req[r].args.email
        /\ Cardinality(customers) = 2

\* C10: a successful register stores the digest of the password, never the
\* password itself, so that login with the same email and password answers 200
\* and login with another password is rejected.
C10_RegisterThenLogin ==
    [][\A r \in Reqs :
          (Responds(r, "create") /\ req'[r].status = 201) =>
              /\ \A c \in FindByEmail(customers', req'[r].args.email) :
                     /\ c.password = HashSync(req'[r].args.password)
                     /\ c.password # req'[r].args.password
              /\ \A pw \in Passwords :
                     LoginStatus(customers', req'[r].args.email, pw) =
                         IF pw = req'[r].args.password THEN 200 ELSE 401
      ]_vars

\* C11: login answers an unknown email and a known email with a wrong password
\* with the same status and the same body.
C11_LoginIndistinguishable ==
    \A e1, e2 \in Emails, pw1, pw2 \in Passwords :
        (/\ FindByEmail(customers, e1) = {}
         /\ FindByEmail(customers, e2) # {}
         /\ LoginStatus(customers, e2, pw2) # 200) =>
            /\ LoginStatus(customers, e1, pw1) = LoginStatus(customers, e2, pw2)
            /\ LoginBody(customers, e1, pw1) = LoginBody(customers, e2, pw2)

\* C12: updateCustomerProfile with an email of a different customer answers 403
\* and leaves the customer table as it was; otherwise it changes only the row of
\* the token's customer_id, which gets the email and the name, and answers 200.
C12_UpdateProfile ==
    [][\A r \in Reqs :
          /\ Starts(r, "updateCustomerProfile") =>
                /\ customers' = customers
                /\ IF \E c \in customers : /\ c.email = req'[r].args.email
                                           /\ c.customer_id # req'[r].args.customerId
                   THEN req'[r].pc = "done" /\ req'[r].status = 403
                   ELSE req'[r].pc = "update"
          /\ (req[r].op = "updateCustomerProfile" /\ req[r].pc = "update"
                 /\ req'[r] # req[r]) =>
                /\ \A c \in customers :
                       IF c.customer_id = req[r].args.customerId
                       THEN [c EXCEPT !.email = req[r].args.email,
                                      !.name = req[r].args.name] \in customers'
                       ELSE c \in customers'
                /\ Cardinality(customers') = Cardinality(customers)
          /\ (Responds(r, "updateCustomerProfile") /\ req[r].pc = "findOne") =>
                /\ customers' = customers
                /\ req'[r].status = 200
      ]_vars

\* C12 witness: an update was answered 403 for the email of the other customer
C12_Witness ==
    \E r \in Reqs :
        /\ req[r].op = "updateCustomerProfile"
        /\ req[r].status = 403
        /\ \E c \in customers : /\ c.email = req[r].args.email
                                /\ c.customer_id # req[r].args.customerId
        /\ \E c \in customers : c.customer_id = req[r].args.customerId

\* C13: updateCartItem answers 404 when no row has the item_id and 400 when
\* quantity <= 0, leaving the cart table as it was; only for an existing item
\* and quantity > 0 is the quantity set and success answered.
C13_UpdateCartItemErrors ==
    [][\A r \in Reqs :
          /\ (Starts(r, "updateCartItem") /\ req'[r].args.customerId # 0) =>
                IF req'[r].args.quantity <= 0
                THEN cart' = cart /\ req'[r].pc = "done" /\ req'[r].status = 400
                ELSE IF FindByPk(cart, req'[r].args.item_id) = {}
                THEN cart' = cart /\ req'[r].pc = "done" /\ req'[r].status = 404
                ELSE \A x \in FindByPk(cart', req'[r].args.item_id) :
                         x.quantity = req'[r].args.quantity
          /\ (/\ Responds(r, "updateCartItem")
              /\ req'[r].args.customerId # 0
              /\ req'[r].status = 200) =>
                /\ req'[r].args.quantity > 0
                /\ req'[r].body # {}
      ]_vars

\* C14: addItemToCart answers 400 and leaves the cart table as it was when
\* quantity <= 0 or product_id is no product of the catalog; no cart row has a
\* quantity <= 0 or a product_id outside the catalog.
C14_AddItemValidation ==
    [][/\ \A r \in Reqs :
             (/\ Starts(r, "addItemToCart")
              /\ \/ req'[r].args.quantity <= 0
                 \/ req'[r].args.product_id \notin Products) =>
                 cart' = cart /\ req'[r].pc = "done" /\ req'[r].status = 400
       /\ \A x \in cart' : x.quantity > 0 /\ x.product_id \in Products
      ]_vars

\* C15: the line item addItemToCart returns is a row of the table whose cart_id
\* and product_id are the request's and whose quantity is that row's quantity.
C15_ReturnedLine ==
    [][\A r \in Reqs :
          (Responds(r, "addItemToCart") /\ req'[r].status = 201) =>
              \E x \in cart' :
                  /\ req'[r].body = {CartColumns(x)}
                  /\ x.cart_id = req'[r].args.cart_id
                  /\ x.product_id = req'[r].args.product_id
      ]_vars

\* C16: getCart of a cart_id without rows, or with a token that carries no
\* customer, answers 200 with an empty collection.
C16_GetCartEmpty ==
    [][\A r \in Reqs :
          (/\ Responds(r, "getCart")
           /\ \/ req'[r].args.customerId = 0
              \/ CartRows(cart, req'[r].args.cart_id) = {}) =>
              req'[r].status = 200 /\ req'[r].body = {}
      ]_vars

\* C17: getCart answers with exactly the lines stored under the cart_id, each
\* with subtotal = quantity * current unit price, and with a cart-level total
\* equal to the sum of the subtotals.
C17_GetCartTotal ==
    [][\A r \in Reqs :
          (Responds(r, "getCart") /\ req'[r].args.customerId # 0) =>
              /\ req'[r].status = 200
              /\ \A x \in CartRows(cart, req'[r].args.cart_id) :
                     \E b \in req'[r].body :
                         /\ b.item_id = x.item_id
                         /\ b.subtotal = x.quantity * price[x.product_id]
              /\ \A b \in req'[r].body :
                     \E x \in CartRows(cart, req'[r].args.cart_id) :
                         b.item_id = x.item_id
              /\ GetCartTotal(cart, req'[r].args.cart_id) =
                     <<SumSubtotals(CartRows(cart, req'[r].args.cart_id))>>
      ]_vars

\* C18: getOrderSummary answers 404 exactly when no order has the order_id, and
\* otherwise answers with all and only the order-detail rows of that order.
C18_OrderSummary ==
    [][\A r \in Reqs :
          Responds(r, "getOrderSummary") =>
              IF \E o \in orders : o.order_id = req'[r].args.order_id
              THEN /\ req'[r].status = 200
                   /\ req'[r].body.order_id = req'[r].args.order_id
                   /\ req'[r].body.order_items =
                          {d \in orderDetail : d.order_id = req'[r].args.order_id}
              ELSE req'[r].status = 404
      ]_vars

\* C19: the order_id createOrder answers with is the order_id of a row that
\* carries the request's customer and cart_id, and two createOrder requests
\* never answer with the same order_id.
C19_ReturnedOrderId ==
    \A r1 \in Reqs :
        (req[r1].op = "createOrder" /\ req[r1].pc = "done" /\ req[r1].status = 201) =>
            /\ \E o \in orders :
                   /\ o.order_id = req[r1].body.order_id
                   /\ o.customer_id = req[r1].args.customerId
                   /\ o.cart_id = req[r1].args.cart_id
            /\ \A r2 \in Reqs \ {r1} :
                   (/\ req[r2].op = "createOrder"
                    /\ req[r2].pc = "done"
                    /\ req[r2].status = 201) =>
                       req[r2].body.order_id # req[r1].body.order_id

\* C20: when no item is added after the first checkout, createOrder submitted
\* again for the same cart_id leaves at most one order row of that cart_id.
C20_OrderOnce ==
    \A o1, o2 \in orders : o1.cart_id = o2.cart_id => o1 = o2

\* the reviews a customer has written of a product
ReviewsOf(rows, cust, pid) ==
    {x \in rows : x.customer_id = cust /\ x.product_id = pid}

\* C21: the review table never holds two reviews of one (customer_id,
\* product_id), customer_id being the customer of the request's token: a review
\* of a product the calling customer has already reviewed is answered 409 and
\* adds no row, and a review of an existing product the calling customer has not
\* reviewed yet is answered 201 and adds one row of that customer and product,
\* whoever else has reviewed the product.
C21_ReviewUniqueness ==
    [][\A r \in Reqs :
          Responds(r, "postProductReview") =>
              LET a == req'[r].args
                  mine == ReviewsOf(reviews, a.customerId, a.product_id)
              IN  /\ \A x, y \in reviews' :
                         (x.customer_id = y.customer_id /\ x.product_id = y.product_id)
                             => x = y
                  /\ mine # {} => req'[r].status = 409 /\ reviews' = reviews
                  /\ (mine = {} /\ a.product_id \in Products) =>
                         /\ req'[r].status = 201
                         /\ Cardinality(reviews') = Cardinality(reviews) + 1
                         /\ ReviewsOf(reviews', a.customerId, a.product_id) # {}
      ]_vars

PaginatedListings ==
    {"getAllProducts", "searchProduct", "getProductsByCategory",
     "getProductsByDepartment"}

\* C22: the query of every paginated listing has offset = (page - 1) * pageSize,
\* where page is 1 when the request's page is omitted or below 1 and pageSize is
\* 20 when the request's limit is omitted; the offset is a number and never
\* negative.
C22_PaginationBoundary ==
    [][\A r \in Reqs : \A op \in PaginatedListings :
          Starts(r, op) =>
              LET a == req'[r].args
                  page == IF a.page.kind = "undefined" \/ a.page.value < 1
                          THEN 1 ELSE a.page.value
                  pageSize == IF a.limit.kind = "undefined" THEN 20 ELSE a.limit.value
              IN  /\ a.query.offset = Num((page - 1) * pageSize)
                  /\ a.query.offset.value >= 0
                  /\ a.query.limit = Num(pageSize)
      ]_vars

\* C23: getCart submitted right after a successful addItemToCart, with the
\* cart_id string of that request, answers with a line for the product added:
\* the item is stored under the cart_id the caller supplied.
C23_AddGetRoundTrip ==
    [][\A r \in Reqs :
          (/\ req[r].op = "addItemToCart"
           /\ req[r].pc = "done"
           /\ req[r].status = 201
           /\ Responds(r, "getCart")
           /\ req'[r].args.customerId # 0
           /\ req'[r].args.cart_id = req[r].args.cart_id) =>
              /\ req'[r].status = 200
              /\ \E b \in req'[r].body : b.product_id = req[r].args.product_id
              /\ \E x \in cart : /\ x.cart_id = req[r].args.cart_id
                                 /\ x.product_id = req[r].args.product_id
      ]_vars

\* C24: in every state reached by interleaved register and updateCustomerProfile
\* requests, no two rows of the customer table have the same email.
C24_EmailUnique ==
    \A c, d \in customers : c.email = d.email => c = d

====
